---- MODULE Spec2Model ----
(***************************************************************************)
(* SharedDecoderManager (dom/media/platforms/SharedDecoderManager.cpp):    *)
(* one MediaDataDecoder shared by several SharedDecoderProxy objects.      *)
(*                                                                         *)
(* Two threads are modelled.  The reader thread makes the consumer calls   *)
(* (Init, Input, Flush, Drain, Shutdown on a proxy, and the manager's own  *)
(* entry points); its position inside a call is pc.  SetIdle blocks on the *)
(* monitor, so a call that hands the decoder off takes several steps.  The *)
(* decoder's task queue is the second thread: it runs the queued work of   *)
(* the decoder and calls back into SharedDecoderCallback at any time.      *)
(* Init completions are dispatched to the reader thread (Then on           *)
(* AbstractThread::GetCurrent()), so they run only between reader calls.   *)
(*                                                                         *)
(* The decoder and its factory (PlatformDecoderModule) are not part of the *)
(* sources; they are modelled from their contract: a FIFO of accepted      *)
(* input and drain requests, a flush that empties it when it succeeds, and *)
(* results drawn nondeterministically.                                     *)
(***************************************************************************)
EXTENDS Integers, Sequences, FiniteSets, TLC

\* ---------------------------------------------------------------- bounds
MaxProxies == 2
MaxQueue == 2
MaxOwed == 1
MaxInitCalls == 2

Proxies == 1..MaxProxies

\* TrackInfo::TrackType values a decoder can report from Init().
TrackTypes == {"kAudioTrack", "kVideoTrack"}
\* MediaDataDecoder::DecoderFailureReason values.
FailureReasons == {"INIT_ERROR", "CANCELED"}
\* nsresult of a decoder request.
NS_OK == "NS_OK"
NS_ERROR_FAILURE == "NS_ERROR_FAILURE"
Statuses == {NS_OK, NS_ERROR_FAILURE}

VARIABLES
  \* SharedDecoderManager members
  mDecoder,                   \* 0 (null) or 1 (a decoder)
  mPDM,                       \* TRUE iff the factory reference is set
  mTaskQueue,                 \* TRUE iff the task queue exists
  mActiveProxy,               \* 0 (null) or a proxy
  mActiveCallback,            \* 0 (null) or a consumer callback (sink)
  mInit,
  mWaitForInternalDrain,
  mMonitor,                   \* the thread inside mMonitor, or "none"
  mDecoderInitPromise,        \* MediaPromiseHolder: 0 (empty) or a promise
  mDecoderInitPromiseRequest, \* MediaPromiseRequestHolder: 0 or a request
  \* SharedDecoderProxy objects handed out so far
  proxies,
  \* the decoder (external): accepted work not yet carried out, and the init
  \* requests made so far (stale: made to a decoder that has been replaced)
  queue,
  reqs,
  \* promises returned by InitDecoder: promise number -> state
  promises,
  \* the reader thread
  pc, op, cur, idleOf, trace, crashed,
  \* observations of the latest step (not program state): the callback
  \* delivery it made and the value it returned to the consumer, if any
  lastEvent, lastRet,
  \* ... and the requests it made to the decoder, the factory and the task
  \* queue, in order
  asked,
  \* observations of the run so far: per proxy, Drain() calls made minus
  \* DrainComplete() notifications received; whether a hand-off's flush
  \* failed; the track type the current decoder reported from its init
  owed, handoffFlushFailed, reportedType,
  \* which observations are kept (fixed by the specification)
  observe

mgrVars == <<mDecoder, mPDM, mTaskQueue, mActiveProxy, mActiveCallback, mInit,
             mWaitForInternalDrain, mMonitor, mDecoderInitPromise,
             mDecoderInitPromiseRequest>>
resVars == <<queue, reqs>>
thrVars == <<pc, op, cur, idleOf, trace, crashed>>
obsVars == <<owed, handoffFlushFailed, reportedType>>
vars == <<mgrVars, proxies, resVars, promises, thrVars, lastEvent, lastRet,
          asked, obsVars, observe>>

\* The consumer callback a proxy was constructed with (SharedDecoderProxy's
\* mCallback).  Every consumer brings its own callback object; callbacks are
\* numbered apart from the proxies.
mCallback(p) == MaxProxies + p

Sinks == {mCallback(p) : p \in Proxies}
ProxyOfSink(s) == s - MaxProxies

NoEvent == [kind |-> "none", sink |-> 0, owner |-> 0, active |-> 0,
            internal |-> FALSE, via |-> "none"]
NoRet == [call |-> "none", proxy |-> 0, immediate |-> FALSE, promise |-> 0,
          val |-> "none", status |-> "none"]
NoPromise == [st |-> "none", val |-> "none"]
NoReq == [st |-> "none", stale |-> FALSE, by |-> 0]

\* The observations a specification can keep: callback deliveries, returned
\* values, the hand-off trace, the consumers' drain accounts, the owner of
\* each queued input, failed hand-off flushes, the reported track type, the
\* maker and outcome of each init request, the outcome of each init promise,
\* the requests a step makes, the consumer behind each queued drain.
Observations == {"event", "ret", "trace", "owed", "owner", "flush", "type",
                 "reqs", "promise", "asked", "drainer"}
Watching(f) == f \in observe

\* Steps that call no consumer callback, and steps that return nothing.
Quiet == lastEvent' = NoEvent
NoReturn == lastRet' = NoRet
Asks(s) == asked' = IF Watching("asked") THEN s ELSE <<>>
AsksNothing == asked' = <<>>
Ret(r) == IF Watching("ret") THEN r ELSE NoRet
Tr(t) == IF Watching("trace") THEN t ELSE <<>>
ReqDone(r, outcome) ==
  IF Watching("reqs") THEN [r EXCEPT !.st = outcome]
  ELSE [NoReq EXCEPT !.st = "done"]
PromiseDone(outcome, v) ==
  IF Watching("promise") THEN [st |-> outcome, val |-> v]
  ELSE [st |-> "done", val |-> "none"]

\* ------------------------------------------------------------------ Init
\* SharedDecoderManager::SharedDecoderManager
InitProgram ==
  /\ mDecoder = 0
  /\ mPDM = FALSE
  /\ mTaskQueue = TRUE
  /\ mActiveProxy = 0
  /\ mActiveCallback = 0
  /\ mInit = FALSE
  /\ mWaitForInternalDrain = FALSE
  /\ mMonitor = "none"
  /\ mDecoderInitPromise = 0
  /\ mDecoderInitPromiseRequest = 0
  /\ proxies = {}
  /\ queue = <<>>
  /\ reqs = [i \in 1..MaxInitCalls |-> NoReq]
  /\ promises = [i \in 1..MaxInitCalls |-> NoPromise]
  /\ pc = "idle"
  /\ op = "none"
  /\ cur = 0
  /\ idleOf = 0
  /\ trace = <<>>
  /\ crashed = FALSE
  /\ lastEvent = NoEvent
  /\ lastRet = NoRet
  /\ owed = [p \in Proxies |-> 0]
  /\ handoffFlushFailed = FALSE
  /\ reportedType = "none"
  /\ asked = <<>>

Init == InitProgram /\ observe = Observations

\* ------------------------------------------------- SharedDecoderCallback
\* The reader thread is inside SetIdle, between setting mWaitForInternalDrain
\* and requesting the flush.
InHandoff == pc \in {"drain", "wait"}

\* A consumer callback receives DrainComplete().
Received(ow, s) ==
  IF Watching("owed")
  THEN [ow EXCEPT ![ProxyOfSink(s)] = IF @ >= 0 THEN @ - 1 ELSE @]
  ELSE ow

Event(kind, sink, owner, internal, via) ==
  IF Watching("event")
  THEN [kind |-> kind, sink |-> sink, owner |-> owner,
        active |-> mActiveProxy, internal |-> internal, via |-> via]
  ELSE NoEvent

\* Output, Error, InputExhausted, ReleaseMediaResources: forwarded to
\* mActiveCallback when it is set, dropped otherwise.
Forward(kind, owner) ==
  /\ lastEvent' = Event(kind, IF mActiveCallback # 0 THEN mActiveCallback
                              ELSE 0, owner, FALSE, "router")
  /\ UNCHANGED <<mWaitForInternalDrain, owed>>

\* SharedDecoderManager::DrainComplete, reached from the callback; tr and ow
\* are the reader's trace and the consumers' account at the time of the call.
ManagerDrainComplete_alwaysForward(tr, ow) ==
  /\ mMonitor = "none"
  /\ mWaitForInternalDrain' = FALSE
  /\ lastEvent' = Event("DrainComplete", mActiveCallback, 0, FALSE, "router")
  /\ owed' = Received(ow, mActiveCallback)
  /\ trace' = tr

ManagerDrainComplete_keepFlag(tr, ow) ==
  \* MonitorAutoLock mon(mMonitor): entered only when no thread is inside
  /\ mMonitor = "none"
  /\ IF mWaitForInternalDrain
     THEN \* the manager's own drain: clear the flag, wake the waiter, return
          /\ mWaitForInternalDrain' = mWaitForInternalDrain
          /\ lastEvent' = Event("DrainComplete", 0, 0, TRUE, "router")
          /\ owed' = ow
          /\ trace' = IF InHandoff THEN Tr(Append(tr, "ack")) ELSE tr
     ELSE \* mActiveCallback->DrainComplete()
          /\ mWaitForInternalDrain' = FALSE
          /\ lastEvent' = Event("DrainComplete", mActiveCallback, 0, FALSE,
                                "router")
          /\ owed' = Received(ow, mActiveCallback)
          /\ trace' = tr

ManagerDrainComplete(tr, ow) ==
  \* MonitorAutoLock mon(mMonitor): entered only when no thread is inside
  /\ mMonitor = "none"
  /\ IF mWaitForInternalDrain
     THEN \* the manager's own drain: clear the flag, wake the waiter, return
          /\ mWaitForInternalDrain' = FALSE
          /\ lastEvent' = Event("DrainComplete", 0, 0, TRUE, "router")
          /\ owed' = ow
          /\ trace' = IF InHandoff THEN Tr(Append(tr, "ack")) ELSE tr
     ELSE \* mActiveCallback->DrainComplete()
          /\ mWaitForInternalDrain' = FALSE
          /\ lastEvent' = Event("DrainComplete", mActiveCallback, 0, FALSE,
                                "router")
          /\ owed' = Received(ow, mActiveCallback)
          /\ trace' = tr

\* SharedDecoderCallback::DrainComplete
CallbackDrainComplete(tr, ow) ==
  IF mActiveCallback # 0
  THEN ManagerDrainComplete(tr, ow)
  ELSE /\ lastEvent' = Event("DrainComplete", 0, 0, FALSE, "router")
       /\ trace' = tr
       /\ owed' = ow
       /\ UNCHANGED mWaitForInternalDrain

\* ------------------------------------------------------------ the decoder
InputTask(p) == [t |-> "in", owner |-> IF Watching("owner") THEN p ELSE 0]
DrainTask == [t |-> "drain", owner |-> 0]
\* ... a drain request that a consumer made itself
ConsumerDrainTask(p) ==
  [t |-> "drain", owner |-> IF Watching("drainer") THEN p ELSE 0]

\* MediaDataDecoder::Input: an accepted sample joins the pipeline.
DecoderInput(p, st) ==
  /\ st = NS_OK => Len(queue) < MaxQueue
  /\ queue' = IF st = NS_OK THEN Append(queue, InputTask(p)) ELSE queue

\* MediaDataDecoder::Flush: a successful flush discards the whole pipeline.
DecoderFlush(st) ==
  queue' = IF st = NS_OK THEN <<>> ELSE queue

\* The decoder thread carries out the oldest accepted input and hands the
\* decoded frame to its callback.
DecoderOutput ==
  /\ ~crashed /\ mDecoder # 0
  /\ queue # <<>> /\ Head(queue).t = "in"
  /\ queue' = Tail(queue)
  /\ Forward("Output", Head(queue).owner)
  /\ NoReturn
  /\ UNCHANGED <<mDecoder, mPDM, mTaskQueue, mMonitor, mActiveProxy, mActiveCallback,
                 mInit, mDecoderInitPromise, mDecoderInitPromiseRequest,
                 proxies, reqs, promises, thrVars,
                 handoffFlushFailed, reportedType>>
  /\ AsksNothing
  /\ UNCHANGED observe

\* The decoder thread reaches an accepted drain request: DrainComplete().
DecoderDrainComplete ==
  /\ ~crashed /\ mDecoder # 0
  /\ queue # <<>> /\ Head(queue).t = "drain"
  /\ queue' = Tail(queue)
  /\ CallbackDrainComplete(trace, owed)
  /\ NoReturn
  /\ UNCHANGED <<mDecoder, mPDM, mTaskQueue, mMonitor, mActiveProxy, mActiveCallback,
                 mInit, mDecoderInitPromise, mDecoderInitPromiseRequest,
                 proxies, reqs, promises,
                 pc, op, cur, idleOf, crashed,
                 handoffFlushFailed, reportedType>>
  /\ AsksNothing
  /\ UNCHANGED observe

\* Error(), InputExhausted() and ReleaseMediaResources() can come from the
\* decoder at any time.
DecoderEvent(kind) ==
  /\ ~crashed /\ mDecoder # 0
  /\ Forward(kind, 0)
  /\ NoReturn
  /\ UNCHANGED <<mDecoder, mPDM, mTaskQueue, mMonitor, mActiveProxy, mActiveCallback,
                 mInit, mDecoderInitPromise, mDecoderInitPromiseRequest,
                 proxies, resVars, promises, thrVars,
                 handoffFlushFailed, reportedType>>
  /\ AsksNothing
  /\ UNCHANGED observe

DecoderError == DecoderEvent("Error")
DecoderInputExhausted == DecoderEvent("InputExhausted")
DecoderReleaseMediaResources == DecoderEvent("ReleaseMediaResources")

\* ------------------------------------------------------ the reader thread
Idle == pc = "idle" /\ ~crashed

\* A call returns to the reader's event loop.
Return ==
  /\ pc' = "idle" /\ op' = "none" /\ cur' = 0 /\ idleOf' = 0 /\ trace' = <<>>
  /\ crashed' = crashed

\* mManager->mDecoder-> ... with mDecoder null, or mPDM-> ... with mPDM null:
\* the process faults and nothing runs after it.
NullDeref ==
  /\ crashed' = TRUE
  /\ Quiet /\ NoReturn /\ AsksNothing
  /\ UNCHANGED <<mgrVars, proxies, resVars, promises, pc, op, cur, idleOf,
                 trace, obsVars>>

\* Proxies are handed out in order.
NextProxy == Cardinality(proxies) + 1

RetStatus(call, p, st) ==
  Ret([call |-> call, proxy |-> p, immediate |-> FALSE, promise |-> 0,
       val |-> "none", status |-> st])

\* SharedDecoderManager::CreateVideoDecoder; ok is whether aPDM->CreateDecoder
\* returns a decoder when it is asked for one.
CreateVideoDecoder_alwaysCreate(ok) ==
  /\ Idle
  /\ NextProxy \in Proxies
  /\ IF TRUE
     THEN IF ok
          THEN /\ mDecoder' = 1
               /\ mPDM' = TRUE
               /\ queue' = <<>>
               /\ reportedType' = "none"
               /\ proxies' = proxies \cup {NextProxy}
               /\ lastRet' = RetStatus("CreateVideoDecoder", NextProxy, "new")
               /\ Asks(<<"CreateDecoder">>)
          ELSE /\ mPDM' = FALSE
               /\ lastRet' = RetStatus("CreateVideoDecoder", 0, "failed")
               /\ Asks(<<"CreateDecoder">>)
               /\ UNCHANGED <<mDecoder, queue, reportedType, proxies>>
     ELSE /\ proxies' = proxies \cup {NextProxy}
          /\ lastRet' = RetStatus("CreateVideoDecoder", NextProxy, "shared")
          /\ AsksNothing
          /\ UNCHANGED <<mDecoder, mPDM, queue, reportedType>>
  /\ Quiet
  /\ UNCHANGED <<mTaskQueue, mMonitor, mActiveProxy, mActiveCallback, mInit,
                 mWaitForInternalDrain, mDecoderInitPromise,
                 mDecoderInitPromiseRequest, reqs, promises, thrVars,
                 owed, handoffFlushFailed>>
  /\ UNCHANGED observe

CreateVideoDecoder_keepFactory(ok) ==
  /\ Idle
  /\ NextProxy \in Proxies
  /\ IF mDecoder = 0
     THEN IF ok
          THEN /\ mDecoder' = 1
               /\ mPDM' = TRUE
               /\ queue' = <<>>
               /\ reportedType' = "none"
               /\ proxies' = proxies \cup {NextProxy}
               /\ lastRet' = RetStatus("CreateVideoDecoder", NextProxy, "new")
               /\ Asks(<<"CreateDecoder">>)
          ELSE /\ mPDM' = mPDM
               /\ lastRet' = RetStatus("CreateVideoDecoder", 0, "failed")
               /\ Asks(<<"CreateDecoder">>)
               /\ UNCHANGED <<mDecoder, queue, reportedType, proxies>>
     ELSE /\ proxies' = proxies \cup {NextProxy}
          /\ lastRet' = RetStatus("CreateVideoDecoder", NextProxy, "shared")
          /\ AsksNothing
          /\ UNCHANGED <<mDecoder, mPDM, queue, reportedType>>
  /\ Quiet
  /\ UNCHANGED <<mTaskQueue, mMonitor, mActiveProxy, mActiveCallback, mInit,
                 mWaitForInternalDrain, mDecoderInitPromise,
                 mDecoderInitPromiseRequest, reqs, promises, thrVars,
                 owed, handoffFlushFailed>>
  /\ UNCHANGED observe

CreateVideoDecoder(ok) ==
  /\ Idle
  /\ NextProxy \in Proxies
  /\ IF mDecoder = 0
     THEN IF ok
          THEN /\ mDecoder' = 1
               /\ mPDM' = TRUE
               /\ queue' = <<>>
               /\ reportedType' = "none"
               /\ proxies' = proxies \cup {NextProxy}
               /\ lastRet' = RetStatus("CreateVideoDecoder", NextProxy, "new")
               /\ Asks(<<"CreateDecoder">>)
          ELSE /\ mPDM' = FALSE
               /\ lastRet' = RetStatus("CreateVideoDecoder", 0, "failed")
               /\ Asks(<<"CreateDecoder">>)
               /\ UNCHANGED <<mDecoder, queue, reportedType, proxies>>
     ELSE /\ proxies' = proxies \cup {NextProxy}
          /\ lastRet' = RetStatus("CreateVideoDecoder", NextProxy, "shared")
          /\ AsksNothing
          /\ UNCHANGED <<mDecoder, mPDM, queue, reportedType>>
  /\ Quiet
  /\ UNCHANGED <<mTaskQueue, mMonitor, mActiveProxy, mActiveCallback, mInit,
                 mWaitForInternalDrain, mDecoderInitPromise,
                 mDecoderInitPromiseRequest, reqs, promises, thrVars,
                 owed, handoffFlushFailed>>
  /\ UNCHANGED observe

\* Init requests made so far.
NumReqs == Cardinality({i \in 1..MaxInitCalls : reqs[i].st # "none"})

\* The number of real init requests is capped; a call that cannot issue one
\* is always possible.
MayCallInit == mInit \/ mDecoder = 0 \/ NumReqs < MaxInitCalls

\* SharedDecoderProxy::Init, up to the call of Select or InitDecoder.
ProxyInit_alwaysSelect(p) ==
  /\ Idle /\ p \in proxies /\ MayCallInit
  /\ op' = "Init" /\ cur' = p /\ trace' = <<>>
  /\ pc' = "select"
  /\ Quiet /\ NoReturn
  /\ UNCHANGED <<mgrVars, proxies, resVars, promises, idleOf, crashed,
                 obsVars>>
  /\ AsksNothing
  /\ UNCHANGED observe

ProxyInit_noSelect(p) ==
  /\ Idle /\ p \in proxies /\ MayCallInit
  /\ op' = "Init" /\ cur' = p /\ trace' = <<>>
  /\ pc' = "body"
  /\ Quiet /\ NoReturn
  /\ UNCHANGED <<mgrVars, proxies, resVars, promises, idleOf, crashed,
                 obsVars>>
  /\ AsksNothing
  /\ UNCHANGED observe

ProxyInit(p) ==
  /\ Idle /\ p \in proxies /\ MayCallInit
  /\ op' = "Init" /\ cur' = p /\ trace' = <<>>
  /\ pc' = IF mActiveProxy # p THEN "select" ELSE "body"
  /\ Quiet /\ NoReturn
  /\ UNCHANGED <<mgrVars, proxies, resVars, promises, idleOf, crashed,
                 obsVars>>
  /\ AsksNothing
  /\ UNCHANGED observe

\* SharedDecoderProxy::Input, up to the call of Select or mDecoder->Input.
ProxyInput_noSelect(p) ==
  /\ Idle /\ p \in proxies
  /\ op' = "Input" /\ cur' = p /\ trace' = <<>>
  /\ pc' = "body"
  /\ Quiet /\ NoReturn
  /\ UNCHANGED <<mgrVars, proxies, resVars, promises, idleOf, crashed,
                 obsVars>>
  /\ AsksNothing
  /\ UNCHANGED observe

ProxyInput(p) ==
  /\ Idle /\ p \in proxies
  /\ op' = "Input" /\ cur' = p /\ trace' = <<>>
  /\ pc' = IF mActiveProxy # p THEN "select" ELSE "body"
  /\ Quiet /\ NoReturn
  /\ UNCHANGED <<mgrVars, proxies, resVars, promises, idleOf, crashed,
                 obsVars>>
  /\ AsksNothing
  /\ UNCHANGED observe

\* SharedDecoderProxy::Shutdown (also run by ~SharedDecoderProxy): SetIdle(this)
ProxyShutdown(p) ==
  /\ Idle /\ p \in proxies
  /\ op' = "Shutdown" /\ cur' = p /\ trace' = <<>>
  /\ idleOf' = p
  /\ pc' = "setidle"
  /\ Quiet /\ NoReturn
  /\ UNCHANGED <<mgrVars, proxies, resVars, promises, crashed, obsVars>>
  /\ AsksNothing
  /\ UNCHANGED observe

\* SharedDecoderManager::Select past its early return: SetIdle(mActiveProxy).
Select_noSetIdle ==
  /\ pc = "select" /\ ~crashed
  /\ idleOf' = mActiveProxy
  /\ pc' = "assign"
  /\ Quiet /\ NoReturn
  /\ UNCHANGED <<mgrVars, proxies, resVars, promises, op, cur, trace, crashed,
                 obsVars>>
  /\ AsksNothing
  /\ UNCHANGED observe

Select_earlyCallback ==
  /\ pc = "select" /\ ~crashed
  /\ idleOf' = mActiveProxy
  /\ mActiveCallback' = mCallback(cur)
  /\ pc' = "setidle"
  /\ Quiet /\ NoReturn
  /\ UNCHANGED <<mDecoder, mPDM, mTaskQueue, mMonitor, mActiveProxy, mInit,
                 mWaitForInternalDrain, mDecoderInitPromise,
                 mDecoderInitPromiseRequest, proxies, resVars, promises, op,
                 cur, trace, crashed, obsVars>>
  /\ AsksNothing
  /\ UNCHANGED observe

Select ==
  /\ pc = "select" /\ ~crashed
  /\ idleOf' = mActiveProxy
  /\ pc' = "setidle"
  /\ Quiet /\ NoReturn
  /\ UNCHANGED <<mgrVars, proxies, resVars, promises, op, cur, trace, crashed,
                 obsVars>>
  /\ AsksNothing
  /\ UNCHANGED observe

\* Where SetIdle returns to: into Select (called from Init or Input), or out
\* of SharedDecoderProxy::Shutdown, which returns NS_OK.
AfterSetIdle ==
  IF op = "Shutdown"
  THEN /\ pc' = "idle" /\ op' = "none" /\ cur' = 0 /\ idleOf' = 0
       /\ lastRet' = RetStatus("Shutdown", cur, NS_OK)
  ELSE /\ pc' = "assign" /\ UNCHANGED <<op, cur, idleOf>>
       /\ NoReturn

\* SharedDecoderManager::SetIdle, entry: the test, and setting
\* mWaitForInternalDrain under the monitor.
SetIdleEnter_noFlag ==
  /\ pc = "setidle" /\ ~crashed
  /\ IF idleOf # 0 /\ mActiveProxy = idleOf
     THEN /\ mMonitor = "none"
          /\ mWaitForInternalDrain' = mWaitForInternalDrain
          /\ mMonitor' = "none"
          /\ pc' = "drain"
          /\ trace' = Tr(Append(trace, "flag"))
          /\ NoReturn
          /\ UNCHANGED <<op, cur, idleOf>>
     ELSE /\ AfterSetIdle
          /\ trace' = IF op = "Shutdown" THEN <<>> ELSE trace
          /\ UNCHANGED <<mWaitForInternalDrain, mMonitor>>
  /\ Quiet
  /\ UNCHANGED <<mDecoder, mPDM, mTaskQueue, mActiveProxy, mActiveCallback,
                 mInit, mDecoderInitPromise, mDecoderInitPromiseRequest,
                 proxies, resVars, promises, crashed, obsVars>>
  /\ AsksNothing
  /\ UNCHANGED observe

SetIdleEnter_noDrain ==
  /\ pc = "setidle" /\ ~crashed
  /\ IF idleOf # 0 /\ mActiveProxy = idleOf
     THEN /\ mMonitor = "none"
          /\ mWaitForInternalDrain' = TRUE
          /\ mMonitor' = "none"
          /\ pc' = "flush"
          /\ trace' = Tr(Append(trace, "flag"))
          /\ NoReturn
          /\ UNCHANGED <<op, cur, idleOf>>
     ELSE /\ AfterSetIdle
          /\ trace' = IF op = "Shutdown" THEN <<>> ELSE trace
          /\ UNCHANGED <<mWaitForInternalDrain, mMonitor>>
  /\ Quiet
  /\ UNCHANGED <<mDecoder, mPDM, mTaskQueue, mActiveProxy, mActiveCallback,
                 mInit, mDecoderInitPromise, mDecoderInitPromiseRequest,
                 proxies, resVars, promises, crashed, obsVars>>
  /\ AsksNothing
  /\ UNCHANGED observe

SetIdleEnter_holdMonitor ==
  /\ pc = "setidle" /\ ~crashed
  /\ IF idleOf # 0 /\ mActiveProxy = idleOf
     THEN /\ mMonitor = "none"
          /\ mWaitForInternalDrain' = TRUE
          /\ mMonitor' = "reader"
          /\ pc' = "drain"
          /\ trace' = Tr(Append(trace, "flag"))
          /\ NoReturn
          /\ UNCHANGED <<op, cur, idleOf>>
     ELSE /\ AfterSetIdle
          /\ trace' = IF op = "Shutdown" THEN <<>> ELSE trace
          /\ UNCHANGED <<mWaitForInternalDrain, mMonitor>>
  /\ Quiet
  /\ UNCHANGED <<mDecoder, mPDM, mTaskQueue, mActiveProxy, mActiveCallback,
                 mInit, mDecoderInitPromise, mDecoderInitPromiseRequest,
                 proxies, resVars, promises, crashed, obsVars>>
  /\ AsksNothing
  /\ UNCHANGED observe

SetIdleEnter_anyProxy ==
  /\ pc = "setidle" /\ ~crashed
  /\ IF idleOf # 0
     THEN /\ mMonitor = "none"
          /\ mWaitForInternalDrain' = TRUE
          /\ mMonitor' = "none"
          /\ pc' = "drain"
          /\ trace' = Tr(Append(trace, "flag"))
          /\ NoReturn
          /\ UNCHANGED <<op, cur, idleOf>>
     ELSE /\ AfterSetIdle
          /\ trace' = IF op = "Shutdown" THEN <<>> ELSE trace
          /\ UNCHANGED <<mWaitForInternalDrain, mMonitor>>
  /\ Quiet
  /\ UNCHANGED <<mDecoder, mPDM, mTaskQueue, mActiveProxy, mActiveCallback,
                 mInit, mDecoderInitPromise, mDecoderInitPromiseRequest,
                 proxies, resVars, promises, crashed, obsVars>>
  /\ AsksNothing
  /\ UNCHANGED observe

SetIdleEnter ==
  /\ pc = "setidle" /\ ~crashed
  /\ IF idleOf # 0 /\ mActiveProxy = idleOf
     THEN /\ mMonitor = "none"
          /\ mWaitForInternalDrain' = TRUE
          /\ mMonitor' = "none"
          /\ pc' = "drain"
          /\ trace' = Tr(Append(trace, "flag"))
          /\ NoReturn
          /\ UNCHANGED <<op, cur, idleOf>>
     ELSE /\ AfterSetIdle
          /\ trace' = IF op = "Shutdown" THEN <<>> ELSE trace
          /\ UNCHANGED <<mWaitForInternalDrain, mMonitor>>
  /\ Quiet
  /\ UNCHANGED <<mDecoder, mPDM, mTaskQueue, mActiveProxy, mActiveCallback,
                 mInit, mDecoderInitPromise, mDecoderInitPromiseRequest,
                 proxies, resVars, promises, crashed, obsVars>>
  /\ AsksNothing
  /\ UNCHANGED observe

\* SetIdle: nsresult rv = mActiveProxy->Drain(), the monitor not held.  The
\* proxy is the active one, so this is mManager->mDecoder->Drain().  The
\* decoder refuses the request, accepts and queues it, or (with nothing
\* queued) accepts it and calls DrainComplete() before returning.
SetIdleDrain_alwaysWait(mode) ==
  /\ pc = "drain" /\ ~crashed
  /\ IF mDecoder = 0
     THEN NullDeref
     ELSE /\ \/ /\ mode = "refuse"
                /\ pc' = "wait"
                /\ trace' = Tr(trace \o <<"drain", "nowait">>)
                /\ Quiet
                /\ UNCHANGED <<queue, mWaitForInternalDrain, owed>>
             \/ /\ mode = "queue"
                /\ Len(queue) < MaxQueue
                /\ queue' = Append(queue, DrainTask)
                /\ pc' = "wait"
                /\ trace' = Tr(Append(trace, "drain"))
                /\ Quiet
                /\ UNCHANGED <<mWaitForInternalDrain, owed>>
             \/ /\ mode = "now"
                /\ queue = <<>>
                /\ CallbackDrainComplete(Tr(Append(trace, "drain")), owed)
                /\ pc' = "wait"
                /\ UNCHANGED queue
          /\ NoReturn /\ Asks(<<"Drain">>)
          /\ UNCHANGED <<mDecoder, mPDM, mTaskQueue, mMonitor, mActiveProxy,
                         mActiveCallback, mInit, mDecoderInitPromise,
                         mDecoderInitPromiseRequest, proxies, reqs, promises, op, cur, idleOf, crashed,
                         handoffFlushFailed, reportedType>>
  /\ UNCHANGED observe

SetIdleDrain(mode) ==
  /\ pc = "drain" /\ ~crashed
  /\ IF mDecoder = 0
     THEN NullDeref
     ELSE /\ \/ /\ mode = "refuse"
                /\ pc' = "flush"
                /\ trace' = Tr(trace \o <<"drain", "nowait">>)
                /\ Quiet
                /\ UNCHANGED <<queue, mWaitForInternalDrain, owed>>
             \/ /\ mode = "queue"
                /\ Len(queue) < MaxQueue
                /\ queue' = Append(queue, DrainTask)
                /\ pc' = "wait"
                /\ trace' = Tr(Append(trace, "drain"))
                /\ Quiet
                /\ UNCHANGED <<mWaitForInternalDrain, owed>>
             \/ /\ mode = "now"
                /\ queue = <<>>
                /\ CallbackDrainComplete(Tr(Append(trace, "drain")), owed)
                /\ pc' = "wait"
                /\ UNCHANGED queue
          /\ NoReturn /\ Asks(<<"Drain">>)
          /\ UNCHANGED <<mDecoder, mPDM, mTaskQueue, mMonitor, mActiveProxy,
                         mActiveCallback, mInit, mDecoderInitPromise,
                         mDecoderInitPromiseRequest, proxies, reqs, promises, op, cur, idleOf, crashed,
                         handoffFlushFailed, reportedType>>
  /\ UNCHANGED observe

\* SetIdle: while (mWaitForInternalDrain) mon.Wait();
SetIdleWait_noWait ==
  /\ pc = "wait" /\ ~crashed
  /\ mMonitor = "none"
  /\ pc' = "flush"
  /\ trace' = Tr(Append(trace, "waitover"))
  /\ Quiet /\ NoReturn
  /\ UNCHANGED <<mgrVars, proxies, resVars, promises, op, cur, idleOf,
                 crashed, obsVars>>
  /\ AsksNothing
  /\ UNCHANGED observe

SetIdleWait ==
  /\ pc = "wait" /\ ~crashed
  /\ mMonitor = "none"
  /\ ~mWaitForInternalDrain
  /\ pc' = "flush"
  /\ trace' = Tr(Append(trace, "waitover"))
  /\ Quiet /\ NoReturn
  /\ UNCHANGED <<mgrVars, proxies, resVars, promises, op, cur, idleOf,
                 crashed, obsVars>>
  /\ AsksNothing
  /\ UNCHANGED observe

\* SetIdle: mActiveProxy->Flush(); mActiveProxy = nullptr;  The result of the
\* flush is not looked at.
SetIdleFlush_noFlush(st) ==
  /\ pc = "flush" /\ ~crashed
  /\ mActiveProxy' = 0
  /\ trace' = IF op = "Shutdown" THEN <<>> ELSE Tr(trace \o <<"flush", "clear">>)
  /\ AfterSetIdle
  /\ Quiet
  /\ UNCHANGED <<mDecoder, mPDM, mTaskQueue, mMonitor, mActiveCallback, mInit,
                 mWaitForInternalDrain, mDecoderInitPromise,
                 mDecoderInitPromiseRequest, proxies, resVars,
                 promises, crashed, obsVars>>
  /\ AsksNothing
  /\ UNCHANGED observe

SetIdleFlush(st) ==
  /\ pc = "flush" /\ ~crashed
  /\ IF mDecoder = 0
     THEN NullDeref
     ELSE /\ DecoderFlush(st)
          /\ Asks(<<"Flush">>)
          /\ handoffFlushFailed' =
               (handoffFlushFailed \/ (Watching("flush") /\ st # NS_OK))
          /\ mActiveProxy' = 0
          /\ trace' = IF op = "Shutdown" THEN <<>>
                      ELSE Tr(trace \o <<"flush", "clear">>)
          /\ AfterSetIdle
          /\ Quiet
          /\ UNCHANGED <<mDecoder, mPDM, mTaskQueue, mMonitor, mActiveCallback, mInit,
                         mWaitForInternalDrain, mDecoderInitPromise,
                         mDecoderInitPromiseRequest, proxies, reqs, promises, crashed, owed, reportedType>>
  /\ UNCHANGED observe

\* Select: mActiveProxy = aProxy; mActiveCallback = aProxy->mCallback;
\* The decoder thread reads mActiveCallback and never mActiveProxy, and the
\* reader thread runs nothing between the two assignments, so they are one
\* step.
SelectAssign_keepCallback ==
  /\ pc = "assign" /\ ~crashed
  /\ mActiveProxy' = cur
  /\ pc' = "body"
  /\ Quiet /\ NoReturn
  /\ UNCHANGED <<mDecoder, mPDM, mTaskQueue, mMonitor, mInit, mWaitForInternalDrain,
                 mActiveCallback, mDecoderInitPromise,
                 mDecoderInitPromiseRequest, proxies, resVars,
                 promises, op, cur, idleOf, trace, crashed, obsVars>>
  /\ AsksNothing
  /\ UNCHANGED observe

SelectAssign ==
  /\ pc = "assign" /\ ~crashed
  /\ mActiveProxy' = cur
  /\ mActiveCallback' = mCallback(cur)
  /\ pc' = "body"
  /\ Quiet /\ NoReturn
  /\ UNCHANGED <<mDecoder, mPDM, mTaskQueue, mMonitor, mInit, mWaitForInternalDrain,
                 mDecoderInitPromise, mDecoderInitPromiseRequest, proxies,
                 resVars, promises, op, cur, idleOf, trace, crashed, obsVars>>
  /\ AsksNothing
  /\ UNCHANGED observe

\* SharedDecoderManager::InitDecoder, called at the end of
\* SharedDecoderProxy::Init.  A real request gets the next request number;
\* Ensure() makes a promise only when the holder is empty, and Begin()
\* replaces whatever request the request holder held.
InitDecoder ==
  /\ pc = "body" /\ op = "Init" /\ ~crashed
  /\ IF ~mInit /\ mDecoder # 0
     THEN LET id == NumReqs + 1
              pr == IF mDecoderInitPromise # 0 THEN mDecoderInitPromise ELSE id
          IN /\ mDecoderInitPromise' = pr
             /\ promises' = IF mDecoderInitPromise # 0 THEN promises
                            ELSE [promises EXCEPT
                                    ![id] = [st |-> "pending", val |-> "none"]]
             /\ mDecoderInitPromiseRequest' = id
             /\ reqs' = [reqs EXCEPT ![id] = [st |-> "inflight",
                                              stale |-> FALSE,
                                              by |-> IF Watching("reqs")
                                                     THEN cur ELSE 0]]
             /\ Asks(<<"Init">>)
             /\ lastRet' = Ret([call |-> "InitDecoder", proxy |-> cur,
                            immediate |-> FALSE, promise |-> pr,
                            val |-> "none", status |-> "none"])
     ELSE /\ AsksNothing
          /\ lastRet' = Ret([call |-> "InitDecoder", proxy |-> cur,
                         immediate |-> TRUE, promise |-> 0,
                         val |-> "kVideoTrack", status |-> "none"])
          /\ UNCHANGED <<mDecoderInitPromise, promises,
                         mDecoderInitPromiseRequest, reqs>>
  /\ Return
  /\ Quiet
  /\ UNCHANGED <<mDecoder, mPDM, mTaskQueue, mMonitor, mActiveProxy, mActiveCallback,
                 mInit, mWaitForInternalDrain, proxies, queue,
                 obsVars>>
  /\ UNCHANGED observe

\* The resolve callback of an init request (first lambda of InitDecoder).
InitResolved(id, type) ==
  /\ Idle
  /\ reqs[id].st = "inflight"
  /\ reqs' = [reqs EXCEPT ![id] = ReqDone(@, "resolved")]
  /\ mDecoderInitPromiseRequest' = 0
  /\ mInit' = TRUE
  /\ promises' = IF mDecoderInitPromise # 0
                 THEN [promises EXCEPT ![mDecoderInitPromise] =
                         PromiseDone("resolved", type)]
                 ELSE promises
  /\ mDecoderInitPromise' = 0
  /\ reportedType' = IF reqs[id].stale \/ ~Watching("type")
                     THEN reportedType ELSE type
  /\ Quiet /\ NoReturn
  /\ UNCHANGED <<mDecoder, mPDM, mTaskQueue, mMonitor, mActiveProxy, mActiveCallback,
                 mWaitForInternalDrain, proxies, queue, thrVars,
                 owed, handoffFlushFailed>>
  /\ AsksNothing
  /\ UNCHANGED observe

\* The reject callback of an init request (second lambda of InitDecoder).
InitRejected(id, reason) ==
  /\ Idle
  /\ reqs[id].st = "inflight"
  /\ reqs' = [reqs EXCEPT ![id] = ReqDone(@, "rejected")]
  /\ mDecoderInitPromiseRequest' = 0
  /\ promises' = IF mDecoderInitPromise # 0
                 THEN [promises EXCEPT ![mDecoderInitPromise] =
                         PromiseDone("rejected", reason)]
                 ELSE promises
  /\ mDecoderInitPromise' = 0
  /\ Quiet /\ NoReturn
  /\ UNCHANGED <<mDecoder, mPDM, mTaskQueue, mMonitor, mActiveProxy, mActiveCallback,
                 mInit, mWaitForInternalDrain, proxies, queue,
                 thrVars, obsVars>>
  /\ AsksNothing
  /\ UNCHANGED observe

\* SharedDecoderProxy::Input after selection: mManager->mDecoder->Input()
InputBody_alwaysOK(st) ==
  /\ pc = "body" /\ op = "Input" /\ ~crashed
  /\ IF mDecoder = 0
     THEN NullDeref
     ELSE /\ DecoderInput(cur, st)
          /\ Asks(<<"Input">>)
          /\ lastRet' = RetStatus("Input", cur, NS_OK)
          /\ Return
          /\ Quiet
          /\ UNCHANGED <<mgrVars, proxies, reqs, promises, obsVars>>
  /\ UNCHANGED observe

InputBody(st) ==
  /\ pc = "body" /\ op = "Input" /\ ~crashed
  /\ IF mDecoder = 0
     THEN NullDeref
     ELSE /\ DecoderInput(cur, st)
          /\ Asks(<<"Input">>)
          /\ lastRet' = RetStatus("Input", cur, st)
          /\ Return
          /\ Quiet
          /\ UNCHANGED <<mgrVars, proxies, reqs, promises, obsVars>>
  /\ UNCHANGED observe


\* SharedDecoderProxy::Flush; st is the decoder's answer when it is asked.
ProxyFlush_alwaysForward(p, st) ==
  /\ Idle /\ p \in proxies
  /\ IF TRUE
     THEN IF mDecoder = 0
          THEN NullDeref
          ELSE /\ DecoderFlush(st)
               /\ Asks(<<"Flush">>)
               /\ lastRet' = RetStatus("Flush", p, st)
               /\ Quiet
               /\ UNCHANGED <<mgrVars, proxies, reqs, promises, thrVars,
                              obsVars>>
     ELSE /\ lastRet' = RetStatus("Flush", p, NS_OK)
          /\ AsksNothing
          /\ Quiet
          /\ UNCHANGED <<mgrVars, proxies, resVars, promises, thrVars,
                         obsVars>>
  /\ UNCHANGED observe

ProxyFlush(p, st) ==
  /\ Idle /\ p \in proxies
  /\ IF mActiveProxy = p
     THEN IF mDecoder = 0
          THEN NullDeref
          ELSE /\ DecoderFlush(st)
               /\ Asks(<<"Flush">>)
               /\ lastRet' = RetStatus("Flush", p, st)
               /\ Quiet
               /\ UNCHANGED <<mgrVars, proxies, reqs, promises, thrVars,
                              obsVars>>
     ELSE /\ lastRet' = RetStatus("Flush", p, NS_OK)
          /\ AsksNothing
          /\ Quiet
          /\ UNCHANGED <<mgrVars, proxies, resVars, promises, thrVars,
                         obsVars>>
  /\ UNCHANGED observe

\* A consumer's Drain() call is entered in its account of DrainComplete()
\* notifications owed; the number of unanswered calls is capped.
Called(p) == IF Watching("owed") THEN [owed EXCEPT ![p] = @ + 1] ELSE owed

\* SharedDecoderProxy::Drain, called by the consumer.  As in SetIdleDrain the
\* decoder refuses, queues, or completes the drain before returning.
ProxyDrain_alwaysForward(p, mode) ==
  /\ Idle /\ p \in proxies
  /\ owed[p] >= 0 /\ owed[p] < MaxOwed
  /\ IF TRUE
     THEN IF mDecoder = 0
          THEN NullDeref
          ELSE /\ \/ /\ mode = "refuse"
                     /\ lastRet' = RetStatus("Drain", p, NS_ERROR_FAILURE)
                     /\ owed' = Called(p)
                     /\ Quiet
                     /\ UNCHANGED <<queue, mWaitForInternalDrain, trace>>
                  \/ /\ mode = "queue"
                     /\ Len(queue) < MaxQueue
                     /\ queue' = Append(queue, ConsumerDrainTask(p))
                     /\ lastRet' = RetStatus("Drain", p, NS_OK)
                     /\ owed' = Called(p)
                     /\ Quiet
                     /\ UNCHANGED <<mWaitForInternalDrain, trace>>
                  \/ /\ mode = "now"
                     /\ queue = <<>>
                     /\ CallbackDrainComplete(trace, Called(p))
                     /\ lastRet' = RetStatus("Drain", p, NS_OK)
                     /\ UNCHANGED queue
               /\ Asks(<<"Drain">>)
               /\ UNCHANGED <<mDecoder, mPDM, mTaskQueue, mMonitor, mActiveProxy,
                              mActiveCallback, mInit, mDecoderInitPromise,
                              mDecoderInitPromiseRequest, proxies, reqs,
                              promises, pc, op, cur, idleOf, crashed,
                              handoffFlushFailed, reportedType>>
     ELSE \* mCallback->DrainComplete(); return NS_OK;
          /\ lastEvent' = Event("DrainComplete", mCallback(p), 0, FALSE,
                                "proxy")
          /\ owed' = Received(Called(p), mCallback(p))
          /\ AsksNothing
          /\ lastRet' = RetStatus("Drain", p, NS_OK)
          /\ UNCHANGED <<mgrVars, proxies, resVars, promises, thrVars,
                         handoffFlushFailed, reportedType>>
  /\ UNCHANGED observe

ProxyDrain(p, mode) ==
  /\ Idle /\ p \in proxies
  /\ owed[p] >= 0 /\ owed[p] < MaxOwed
  /\ IF mActiveProxy = p
     THEN IF mDecoder = 0
          THEN NullDeref
          ELSE /\ \/ /\ mode = "refuse"
                     /\ lastRet' = RetStatus("Drain", p, NS_ERROR_FAILURE)
                     /\ owed' = Called(p)
                     /\ Quiet
                     /\ UNCHANGED <<queue, mWaitForInternalDrain, trace>>
                  \/ /\ mode = "queue"
                     /\ Len(queue) < MaxQueue
                     /\ queue' = Append(queue, ConsumerDrainTask(p))
                     /\ lastRet' = RetStatus("Drain", p, NS_OK)
                     /\ owed' = Called(p)
                     /\ Quiet
                     /\ UNCHANGED <<mWaitForInternalDrain, trace>>
                  \/ /\ mode = "now"
                     /\ queue = <<>>
                     /\ CallbackDrainComplete(trace, Called(p))
                     /\ lastRet' = RetStatus("Drain", p, NS_OK)
                     /\ UNCHANGED queue
               /\ Asks(<<"Drain">>)
               /\ UNCHANGED <<mDecoder, mPDM, mTaskQueue, mMonitor, mActiveProxy,
                              mActiveCallback, mInit, mDecoderInitPromise,
                              mDecoderInitPromiseRequest, proxies, reqs,
                              promises, pc, op, cur, idleOf, crashed,
                              handoffFlushFailed, reportedType>>
     ELSE \* mCallback->DrainComplete(); return NS_OK;
          /\ lastEvent' = Event("DrainComplete", mCallback(p), 0, FALSE,
                                "proxy")
          /\ owed' = Received(Called(p), mCallback(p))
          /\ AsksNothing
          /\ lastRet' = RetStatus("Drain", p, NS_OK)
          /\ UNCHANGED <<mgrVars, proxies, resVars, promises, thrVars,
                         handoffFlushFailed, reportedType>>
  /\ UNCHANGED observe

\* SharedDecoderProxy::IsHardwareAccelerated
IsHardwareAccelerated(p) ==
  /\ Idle /\ p \in proxies
  /\ IF mDecoder = 0
     THEN NullDeref
     ELSE /\ lastRet' = RetStatus("IsHardwareAccelerated", p, "none")
          /\ Asks(<<"IsHardwareAccelerated">>)
          /\ Quiet
          /\ UNCHANGED <<mgrVars, proxies, resVars, promises, thrVars,
                         obsVars>>
  /\ UNCHANGED observe

\* The decoder the requests were made to is gone.
MarkStale == [i \in 1..MaxInitCalls |->
                [reqs[i] EXCEPT !.stale = (reqs[i].st \notin {"none", "done"})]]

\* SharedDecoderManager::Recreate; ok is whether mPDM->CreateDecoder returns a
\* decoder.  The old decoder is flushed and shut down, which empties it.
Recreate_alwaysReset(ok) ==
  /\ Idle
  /\ IF mDecoder = 0 \/ ~mPDM
     THEN NullDeref
     ELSE /\ queue' = <<>>
          /\ reqs' = MarkStale
          /\ IF ok
             THEN /\ mDecoder' = 1
                  /\ mInit' = FALSE
                  /\ reportedType' = "none"
             ELSE /\ mDecoder' = 0
                  /\ mInit' = FALSE /\ UNCHANGED reportedType
          /\ Asks(<<"Flush", "Shutdown", "CreateDecoder">>)
          /\ lastRet' = RetStatus("Recreate", 0,
                                  IF ok THEN "true" ELSE "false")
          /\ Quiet
          /\ UNCHANGED <<mPDM, mTaskQueue, mMonitor, mActiveProxy, mActiveCallback,
                         mWaitForInternalDrain, mDecoderInitPromise,
                         mDecoderInitPromiseRequest, proxies, promises,
                         thrVars, owed, handoffFlushFailed>>
  /\ UNCHANGED observe

Recreate(ok) ==
  /\ Idle
  /\ IF mDecoder = 0 \/ ~mPDM
     THEN NullDeref
     ELSE /\ queue' = <<>>
          /\ reqs' = MarkStale
          /\ IF ok
             THEN /\ mDecoder' = 1
                  /\ mInit' = FALSE
                  /\ reportedType' = "none"
             ELSE /\ mDecoder' = 0
                  /\ UNCHANGED <<mInit, reportedType>>
          /\ Asks(<<"Flush", "Shutdown", "CreateDecoder">>)
          /\ lastRet' = RetStatus("Recreate", 0,
                                  IF ok THEN "true" ELSE "false")
          /\ Quiet
          /\ UNCHANGED <<mPDM, mTaskQueue, mMonitor, mActiveProxy, mActiveCallback,
                         mWaitForInternalDrain, mDecoderInitPromise,
                         mDecoderInitPromiseRequest, proxies, promises,
                         thrVars, owed, handoffFlushFailed>>
  /\ UNCHANGED observe

\* SharedDecoderManager::Shutdown
Shutdown_alwaysAsk ==
  /\ Idle
  /\ mDecoder' = 0
  /\ queue' = <<>>
  /\ mPDM' = FALSE
  /\ mTaskQueue' = FALSE
  /\ reqs' = [i \in 1..MaxInitCalls |->
                IF i = mDecoderInitPromiseRequest
                THEN ReqDone(MarkStale[i], "disconnected")
                ELSE MarkStale[i]]
  /\ mDecoderInitPromiseRequest' = 0
  /\ lastRet' = RetStatus("ManagerShutdown", 0, "none")
  /\ Asks((IF TRUE THEN <<"Shutdown">> ELSE <<>>)
          \o (IF mTaskQueue THEN <<"BeginShutdown", "AwaitShutdownAndIdle">>
              ELSE <<>>))
  /\ Quiet
  /\ UNCHANGED <<mActiveProxy, mActiveCallback, mInit, mWaitForInternalDrain,
                 mMonitor, mDecoderInitPromise, proxies, promises, thrVars,
                 obsVars>>
  /\ UNCHANGED observe

Shutdown ==
  /\ Idle
  /\ mDecoder' = 0
  /\ queue' = <<>>
  /\ mPDM' = FALSE
  /\ mTaskQueue' = FALSE
  /\ reqs' = [i \in 1..MaxInitCalls |->
                IF i = mDecoderInitPromiseRequest
                THEN ReqDone(MarkStale[i], "disconnected")
                ELSE MarkStale[i]]
  /\ mDecoderInitPromiseRequest' = 0
  /\ lastRet' = RetStatus("ManagerShutdown", 0, "none")
  /\ Asks((IF mDecoder # 0 THEN <<"Shutdown">> ELSE <<>>)
          \o (IF mTaskQueue THEN <<"BeginShutdown", "AwaitShutdownAndIdle">>
              ELSE <<>>))
  /\ Quiet
  /\ UNCHANGED <<mActiveProxy, mActiveCallback, mInit, mWaitForInternalDrain,
                 mMonitor, mDecoderInitPromise, proxies, promises, thrVars,
                 obsVars>>
  /\ UNCHANGED observe

\* ------------------------------------------------------------------ Next
DrainModes == {"refuse", "queue", "now"}

\* Every call and every decoder behaviour.
Next ==
  \/ \E ok \in BOOLEAN : CreateVideoDecoder(ok)
  \/ \E p \in Proxies : ProxyInit(p)
  \/ \E p \in Proxies : ProxyInput(p)
  \/ \E p \in Proxies, st \in Statuses : ProxyFlush(p, st)
  \/ \E p \in Proxies, mode \in DrainModes : ProxyDrain(p, mode)
  \/ \E p \in Proxies : ProxyShutdown(p)
  \/ \E p \in Proxies : IsHardwareAccelerated(p)
  \/ Select
  \/ SetIdleEnter
  \/ \E mode \in DrainModes : SetIdleDrain(mode)
  \/ SetIdleWait
  \/ \E st \in Statuses : SetIdleFlush(st)
  \/ SelectAssign
  \/ InitDecoder
  \/ \E st \in Statuses : InputBody(st)
  \/ \E id \in 1..MaxInitCalls, type \in TrackTypes : InitResolved(id, type)
  \/ \E id \in 1..MaxInitCalls, reason \in FailureReasons :
       InitRejected(id, reason)
  \/ \E ok \in BOOLEAN : Recreate(ok)
  \/ Shutdown
  \/ DecoderOutput
  \/ DecoderDrainComplete
  \/ DecoderError
  \/ DecoderInputExhausted
  \/ DecoderReleaseMediaResources

Spec == Init /\ [][Next]_vars

\* The program started with a chosen set of observations.
InitWatching(obs) == InitProgram /\ observe = obs

\* No init request is waiting for its completion.
NoInitInFlight == \A i \in 1..MaxInitCalls : reqs[i].st # "inflight"

\* The hand-off protocol: consumers that create proxies and call Init, Input,
\* Flush, Drain and Shutdown on them in any order, each Init after the
\* previous init has completed, against a decoder that answers every request
\* in every way and calls back at any time.  The manager is neither recreated
\* nor shut down.
NextHandoff ==
  \/ \E ok \in BOOLEAN : CreateVideoDecoder(ok)
  \/ \E p \in Proxies : NoInitInFlight /\ ProxyInit(p)
  \/ \E p \in Proxies : ProxyInput(p)
  \/ \E p \in Proxies, st \in Statuses : ProxyFlush(p, st)
  \/ \E p \in Proxies, mode \in DrainModes : ProxyDrain(p, mode)
  \/ \E p \in Proxies : ProxyShutdown(p)
  \/ Select
  \/ SetIdleEnter
  \/ \E mode \in DrainModes : SetIdleDrain(mode)
  \/ SetIdleWait
  \/ \E st \in Statuses : SetIdleFlush(st)
  \/ SelectAssign
  \/ InitDecoder
  \/ \E st \in Statuses : InputBody(st)
  \/ \E id \in 1..MaxInitCalls : InitResolved(id, "kVideoTrack")
  \/ DecoderOutput
  \/ DecoderDrainComplete
  \/ DecoderError
  \/ DecoderInputExhausted
  \/ DecoderReleaseMediaResources

\* ... observing the order of the hand-off's steps
SpecHandoff == InitWatching({"trace"}) /\ [][NextHandoff]_vars

\* ... observing the deliveries to the consumers' callbacks
SpecRouting == InitWatching({"event"}) /\ [][NextHandoff]_vars

\* ... observing the consumers' drain accounts and failed hand-off flushes
SpecDrains == InitWatching({"owed", "flush"}) /\ [][NextHandoff]_vars

\* ... observing whose input each delivered output comes from
SpecOutputs ==
  InitWatching({"event", "owner", "flush"}) /\ [][NextHandoff]_vars

\* Initialisation: consumers that create proxies and call Init and Shutdown
\* on them, a manager that is recreated and shut down, init requests that
\* complete in any order with any result.  The decoder completes every drain
\* before returning and every flush succeeds.
NextInit ==
  \/ \E ok \in BOOLEAN : CreateVideoDecoder(ok)
  \/ \E p \in Proxies : ProxyInit(p)
  \/ \E p \in Proxies : ProxyShutdown(p)
  \/ Select
  \/ SetIdleEnter
  \/ SetIdleDrain("now")
  \/ SetIdleWait
  \/ SetIdleFlush(NS_OK)
  \/ SelectAssign
  \/ InitDecoder
  \/ \E id \in 1..MaxInitCalls, type \in TrackTypes : InitResolved(id, type)
  \/ \E id \in 1..MaxInitCalls, reason \in FailureReasons :
       InitRejected(id, reason)
  \/ \E ok \in BOOLEAN : Recreate(ok)
  \/ Shutdown

\* ... observing what InitDecoder returns and what the decoder reported
SpecInit == InitWatching({"promise", "ret", "type"}) /\ [][NextInit]_vars

\* ... observing who made each init request and how it ended
SpecInitRequests == InitWatching({"reqs"}) /\ [][NextInit]_vars

\* ... observing how each init request and each init promise ended
SpecInitOutcomes ==
  InitWatching({"reqs", "promise"}) /\ [][NextInit]_vars

\* ... observing what each call delivers, returns and asks of the decoder
SpecCalls ==
  InitWatching({"event", "ret", "asked"}) /\ [][NextHandoff]_vars

\* Re-creation: as NextInit, with a factory that never fails and a manager
\* that is not shut down, so that a decoder is replaced by a successful
\* Recreate only.
NextRecreate ==
  \/ CreateVideoDecoder(TRUE)
  \/ \E p \in Proxies : ProxyInit(p)
  \/ \E p \in Proxies : ProxyShutdown(p)
  \/ Select
  \/ SetIdleEnter
  \/ SetIdleDrain("now")
  \/ SetIdleWait
  \/ SetIdleFlush(NS_OK)
  \/ SelectAssign
  \/ InitDecoder
  \/ \E id \in 1..MaxInitCalls, type \in TrackTypes : InitResolved(id, type)
  \/ \E id \in 1..MaxInitCalls, reason \in FailureReasons :
       InitRejected(id, reason)
  \/ Recreate(TRUE)

\* ... observing the init requests, what each call returns and what it asks
SpecRecreate ==
  InitWatching({"reqs", "ret", "asked"}) /\ [][NextRecreate]_vars

\* Loss of the decoder: the hand-off protocol's consumers and decoder, and a
\* manager whose decoder is re-created, with or without success.
NextLoss ==
  \/ NextHandoff
  \/ \E ok \in BOOLEAN : Recreate(ok)

\* ... observing what each call returns
SpecLoss == InitWatching({"ret"}) /\ [][NextLoss]_vars

\* ... observing the hand-off's steps, its requests and failed flushes
SpecIdle ==
  InitWatching({"trace", "flush", "asked"}) /\ [][NextHandoff]_vars

\* Teardown: as NextInit, with a manager that is shut down and never
\* re-created, so that a decoder goes away in Shutdown only.
NextTeardown ==
  \/ \E ok \in BOOLEAN : CreateVideoDecoder(ok)
  \/ \E p \in Proxies : ProxyInit(p)
  \/ \E p \in Proxies : ProxyShutdown(p)
  \/ Select
  \/ SetIdleEnter
  \/ SetIdleDrain("now")
  \/ SetIdleWait
  \/ SetIdleFlush(NS_OK)
  \/ SelectAssign
  \/ InitDecoder
  \/ \E id \in 1..MaxInitCalls, type \in TrackTypes : InitResolved(id, type)
  \/ \E id \in 1..MaxInitCalls, reason \in FailureReasons :
       InitRejected(id, reason)
  \/ Shutdown

\* ... observing what each call returns and what it asks
SpecTeardown == InitWatching({"ret", "asked"}) /\ [][NextTeardown]_vars

\* ... observing nothing
SpecTeardownInit == InitWatching({}) /\ [][NextTeardown]_vars

\* ... observing the deliveries, the returned values and whose drain is queued
SpecDrainers == InitWatching({"event", "ret", "drainer"}) /\ [][NextHandoff]_vars

\* The hand-off protocol with threads that keep running: the reader thread
\* takes the next step of SetIdle when it can, and the decoder's thread
\* carries out what the decoder has accepted.
FairHandoff ==
  /\ WF_vars(SetIdleEnter)
  /\ WF_vars(\E mode \in DrainModes : SetIdleDrain(mode))
  /\ WF_vars(SetIdleWait)
  /\ WF_vars(\E st \in Statuses : SetIdleFlush(st))
  /\ WF_vars(DecoderOutput)
  /\ WF_vars(DecoderDrainComplete)

SpecHandoffFair == InitWatching({}) /\ [][NextHandoff]_vars /\ FairHandoff

\* The hand-off protocol with consumers that also ask IsHardwareAccelerated
NextQueries ==
  \/ NextHandoff
  \/ \E p \in Proxies : IsHardwareAccelerated(p)

\* ... observing what each call returns and what it asks
SpecQueries == InitWatching({"ret", "asked"}) /\ [][NextQueries]_vars

\* Teardown and re-creation: as NextTeardown, with a decoder that is also
\* replaced by Recreate, which can fail.
NextLifecycle ==
  \/ NextTeardown
  \/ \E ok \in BOOLEAN : Recreate(ok)

\* ... observing what each call returns
SpecLifecycle == InitWatching({"ret"}) /\ [][NextLifecycle]_vars

\* Teardown and re-creation between inits: every Init, Recreate and Shutdown
\* is called when no init request is waiting for its completion, so that no
\* completion comes late.
NextReinit ==
  \/ \E ok \in BOOLEAN : CreateVideoDecoder(ok)
  \/ \E p \in Proxies : NoInitInFlight /\ ProxyInit(p)
  \/ \E p \in Proxies : ProxyShutdown(p)
  \/ Select
  \/ SetIdleEnter
  \/ SetIdleDrain("now")
  \/ SetIdleWait
  \/ SetIdleFlush(NS_OK)
  \/ SelectAssign
  \/ InitDecoder
  \/ \E id \in 1..MaxInitCalls, type \in TrackTypes : InitResolved(id, type)
  \/ \E id \in 1..MaxInitCalls, reason \in FailureReasons :
       InitRejected(id, reason)
  \/ \E ok \in BOOLEAN : NoInitInFlight /\ Recreate(ok)
  \/ NoInitInFlight /\ Shutdown

\* ... observing what each call returns and the track type the decoder in
\* place has reported
SpecReinit == InitWatching({"ret", "type"}) /\ [][NextReinit]_vars

\* ------------------------------------------------------------ properties
\* The steps of a hand-off that the reader thread takes itself.
OwnSteps(tr) ==
  SelectSeq(tr, LAMBDA s : s \in {"drain", "waitover", "nowait", "flush",
                                  "clear"})

\* The requests of a hand-off and the acknowledgments it consumed.
Requests(tr) == SelectSeq(tr, LAMBDA s : s \in {"drain", "ack", "flush"})

\* The place of the first s in tr, 0 when there is none.
Place(tr, s) ==
  IF \E i \in 1..Len(tr) : tr[i] = s
  THEN CHOOSE i \in 1..Len(tr) : tr[i] = s /\ \A j \in 1..(i - 1) : tr[j] # s
  ELSE 0

\* Select has released a proxy and is about to record the next one.
HandedOff == pc = "assign" /\ idleOf # 0

\* C1: at most one proxy is active, it is one of the manager's proxies, and
\* when Select is about to record B as active, no proxy is active and A's
\* hand-off has run to its end: drain requested, wait over (or skipped on a
\* refused drain), flush requested, active reference cleared.
C1_HandoffBeforeActive ==
  /\ mActiveProxy \in proxies \cup {0}
  /\ pc = "assign" => mActiveProxy = 0
  /\ HandedOff =>
       OwnSteps(trace) \in {<<"drain", "waitover", "flush", "clear">>,
                            <<"drain", "nowait", "flush", "clear">>}

C1_Witness ==
  /\ HandedOff /\ idleOf = 1 /\ cur = 2
  /\ OwnSteps(trace) = <<"drain", "waitover", "flush", "clear">>

Forwarded == {"Output", "Error", "InputExhausted", "ReleaseMediaResources"}

C4_DroppedWhenNoneActive ==
  (lastEvent.kind \in Forwarded /\ lastEvent.active = 0) => lastEvent.sink = 0

Leaked ==
  /\ lastEvent.kind = "Output" /\ lastEvent.sink # 0
  /\ lastEvent.owner # lastEvent.active

Live(i) == reqs[i].st \in {"inflight", "resolved"} /\ ~reqs[i].stale

\* C8 as stated: proxies that share a decoder which is not recreated make
\* one real init request between them: no two proxies each have an init
\* request that the decoder got and did not fail.
C8_OneRealInit ==
  \A i, j \in 1..MaxInitCalls :
    (Live(i) /\ Live(j) /\ reqs[i].by # reqs[j].by) => i = j

\* C9 as stated: once the decoder has completed its init and reported track
\* type T, InitDecoder returns a future already resolved with T.
C9_ImmediateType ==
  (/\ lastRet.call = "InitDecoder" /\ lastRet.immediate
   /\ mDecoder # 0 /\ reportedType # "none")
    => lastRet.val = reportedType

\* C10 as stated: when an init request fails, the future InitDecoder returned
\* is rejected with the decoder's reason and mInit is false afterwards, so
\* that the next InitDecoder call makes a real request.
C10_FailedInitRejects ==
  [][\A id \in 1..MaxInitCalls, reason \in FailureReasons :
       InitRejected(id, reason) =>
         /\ mDecoderInitPromise # 0
         /\ promises'[mDecoderInitPromise] = [st |-> "rejected", val |-> reason]
         /\ ~mInit']_vars

\* The step is the call of op on proxy p, returning.
Returns(call, p) == lastRet'.call = call /\ lastRet'.proxy = p

\* C11: Drain() on a proxy that is not the active one delivers one
\* DrainComplete to that proxy's own sink, returns NS_OK, asks nothing of the
\* decoder and leaves the decoder's pipeline, mActiveProxy, mActiveCallback
\* and mWaitForInternalDrain as they were.
C11_InactiveDrain ==
  [][\A p \in Proxies :
       (Returns("Drain", p) /\ mActiveProxy # p) =>
         /\ lastEvent' = [kind |-> "DrainComplete", sink |-> mCallback(p),
                          owner |-> 0, active |-> mActiveProxy,
                          internal |-> FALSE, via |-> "proxy"]
         /\ lastRet'.status = NS_OK
         /\ asked' = <<>> /\ queue' = queue
         /\ UNCHANGED <<mActiveProxy, mActiveCallback,
                        mWaitForInternalDrain>>]_vars

C11_Witness ==
  /\ lastRet.call = "Drain" /\ lastRet.proxy = 1 /\ mActiveProxy = 2
  /\ lastEvent.kind = "DrainComplete" /\ lastEvent.sink = mCallback(1)
  /\ lastEvent.via = "proxy" /\ asked = <<>> /\ queue # <<>>

\* C12: Flush() on a proxy that is not the active one returns NS_OK, asks
\* nothing of the decoder, delivers nothing to any sink and leaves the
\* decoder's pipeline, mActiveProxy and mActiveCallback as they were.
C12_InactiveFlush ==
  [][\A p \in Proxies :
       (Returns("Flush", p) /\ mActiveProxy # p) =>
         /\ lastRet'.status = NS_OK
         /\ asked' = <<>> /\ queue' = queue
         /\ lastEvent' = NoEvent
         /\ UNCHANGED <<mActiveProxy, mActiveCallback>>]_vars

C12_Witness ==
  /\ lastRet.call = "Flush" /\ lastRet.proxy = 1 /\ mActiveProxy = 2
  /\ lastRet.status = NS_OK /\ asked = <<>> /\ queue # <<>>

\* The decoder the manager holds has been asked for no init.
Fresh == mDecoder # 0 /\ \A i \in 1..MaxInitCalls :
                           reqs[i].st = "none" \/ reqs[i].stale

\* C13 as stated: a successful Recreate flushes and shuts down the old
\* decoder, installs a new one, sets mInit to false and leaves mActiveProxy
\* alone, and an InitDecoder call that finds the new decoder not yet asked
\* for an init asks it for one.
C13_RecreateThenRealInit ==
  [][/\ lastRet'.call = "Recreate" =>
          /\ asked' = <<"Flush", "Shutdown", "CreateDecoder">>
          /\ mDecoder' = 1 /\ ~mInit' /\ queue' = <<>>
          /\ UNCHANGED mActiveProxy
     /\ (lastRet'.call = "InitDecoder" /\ Fresh) =>
          (asked' = <<"Init">> /\ ~lastRet'.immediate)]_vars

\* C14 as stated: while the manager has no decoder after a failed Recreate,
\* Init does not report success and Input returns instead of faulting.
C14_FailsWithoutDecoder ==
  /\ (lastRet.call = "InitDecoder" /\ mDecoder = 0) => ~lastRet.immediate
  /\ ~(crashed /\ op = "Input" /\ pc = "body")

\* C15: CreateVideoDecoder asks the factory for a decoder only when mDecoder
\* is null, and otherwise keeps the decoder it has; the proxy it returns is
\* not selected: mActiveProxy and mActiveCallback change only at the
\* assignment in Select, reached from an Init or Input call of the proxy
\* that becomes active.
C15_CreateKeepsActive ==
  [][/\ lastRet'.call = "CreateVideoDecoder" =>
          /\ IF mDecoder = 0
             THEN asked' = <<"CreateDecoder">>
             ELSE asked' = <<>> /\ UNCHANGED <<mDecoder, queue>>
          /\ UNCHANGED <<mActiveProxy, mActiveCallback>>
          /\ lastRet'.proxy # 0 => mActiveProxy' # lastRet'.proxy
     /\ (mActiveProxy' \notin {0, mActiveProxy}
         \/ mActiveCallback' # mActiveCallback) =>
          /\ pc = "assign" /\ op \in {"Init", "Input"}
          /\ mActiveProxy' = cur /\ mActiveCallback' = mCallback(cur)]_vars

C15_Witness ==
  /\ lastRet.call = "CreateVideoDecoder" /\ lastRet.status = "shared"
  /\ lastRet.proxy = 2 /\ mActiveProxy = 1 /\ asked = <<>> /\ queue # <<>>

\* C16: when CreateVideoDecoder asks the factory for a decoder and gets none,
\* it returns no proxy, mPDM is null afterwards, mDecoder is still null and
\* mActiveProxy and mActiveCallback are as they were.
C16_CreateFails ==
  [][(lastRet'.call = "CreateVideoDecoder" /\ lastRet'.status = "failed") =>
       /\ mDecoder = 0 /\ mDecoder' = 0 /\ ~mPDM'
       /\ lastRet'.proxy = 0 /\ proxies' = proxies
       /\ UNCHANGED <<mActiveProxy, mActiveCallback>>]_vars

\* The factory fails for a manager that has lost its decoder in a failed
\* Recreate while a proxy was active.
C16_Witness ==
  /\ lastRet.call = "CreateVideoDecoder" /\ lastRet.status = "failed"
  /\ ~mPDM /\ mDecoder = 0 /\ mActiveProxy = 1

\* C17: when the drain request of SetIdle is refused, SetIdle goes on to the
\* flush request without waiting, and the step that requests the flush
\* clears mActiveProxy whatever the flush returns.
C17_RefusedDrainSkipsWait ==
  [][/\ (pc = "drain" /\ Place(trace', "nowait") # 0) =>
          (pc' = "flush" /\ asked' = <<"Drain">> /\ queue' = queue)
     /\ (pc = "flush" /\ pc' # "flush") =>
          (asked' = <<"Flush">> /\ mActiveProxy' = 0)]_vars

\* A hand-off is over whose drain was refused and whose flush failed: the
\* flag it set is still set, and no proxy is active.
C17_Witness ==
  /\ HandedOff /\ Place(trace, "nowait") # 0
  /\ mWaitForInternalDrain /\ handoffFlushFailed /\ mActiveProxy = 0

\* C18: SharedDecoderManager::Shutdown leaves the manager without decoder,
\* factory, task queue and tracked init request; it asks the decoder to shut
\* down only if there is one and the task queue only if there is one, so a
\* call that finds neither asks nothing, and a call right after another
\* changes nothing.
C18_ShutdownOnce ==
  [][lastRet'.call = "ManagerShutdown" =>
       /\ mDecoder' = 0 /\ ~mPDM' /\ ~mTaskQueue'
       /\ mDecoderInitPromiseRequest' = 0
       /\ asked' = (IF mDecoder # 0 THEN <<"Shutdown">> ELSE <<>>)
                   \o (IF mTaskQueue
                       THEN <<"BeginShutdown", "AwaitShutdownAndIdle">>
                       ELSE <<>>)
       /\ (mDecoder = 0 /\ ~mTaskQueue) =>
            (asked' = <<>> /\ UNCHANGED <<mActiveProxy, mInit, queue>>)
       /\ (mDecoder = 0 /\ ~mTaskQueue /\ ~mPDM
           /\ mDecoderInitPromiseRequest = 0) =>
            UNCHANGED <<mgrVars, resVars, proxies, promises>>]_vars

\* A second Shutdown, with proxies handed out, has asked nothing.
C18_Witness ==
  /\ lastRet.call = "ManagerShutdown" /\ asked = <<>>
  /\ mDecoder = 0 /\ ~mTaskQueue /\ proxies # {}

\* C19 as stated: an init request that is outstanding when
\* SharedDecoderManager::Shutdown runs never completes afterwards.
C19_ShutdownCancelsInit ==
  [][\A id \in 1..MaxInitCalls :
       (reqs[id].stale /\ reqs[id].st = "inflight") =>
         reqs'[id] = reqs[id]]_vars

\* C20: SharedDecoderProxy::Shutdown of the active proxy runs the hand-off
\* (drain request, wait, flush request, in that order) and returns with no
\* proxy active; of a proxy that is not active it asks the decoder nothing
\* and leaves the manager and the decoder's queue as they were.  A proxy is
\* never active when its Shutdown returns, so a second Shutdown is of the
\* second kind.
C20_ProxyShutdown ==
  [][/\ \A p \in Proxies :
          Returns("Shutdown", p) =>
            /\ lastRet'.status = NS_OK
            /\ mActiveProxy' # p
            /\ IF pc = "setidle"
               THEN /\ mActiveProxy # p
                    /\ asked' = <<>>
                    /\ UNCHANGED <<mgrVars, queue>>
               ELSE /\ pc = "flush" /\ mActiveProxy = p
                    /\ asked' = <<"Flush">>
                    /\ mActiveProxy' = 0
     /\ (op = "Shutdown" /\ pc = "setidle" /\ pc' # "setidle"
         /\ mActiveProxy = cur) =>
          (pc' = "drain" /\ mWaitForInternalDrain')
     /\ (op = "Shutdown" /\ pc = "drain" /\ pc' # "drain") =>
          (asked' = <<"Drain">> /\ pc' \in {"wait", "flush"})
     /\ (op = "Shutdown" /\ pc = "wait" /\ pc' # "wait") =>
          (pc' = "flush" /\ ~mWaitForInternalDrain)]_vars

\* Shutdown of a proxy that is not active has returned while the other proxy
\* stays active.
C20_Witness ==
  /\ lastRet.call = "Shutdown" /\ lastRet.proxy = 1 /\ asked = <<>>
  /\ mActiveProxy = 2 /\ pc = "idle"

\* The step asks the decoder for r.
Requested(r) == \E i \in 1..Len(asked') : asked'[i] = r

\* C21 as stated: an input, flush or drain request is made to the decoder
\* only while there is a decoder and mInit is true.
C21_ForwardedOnlyInitialized ==
  [][(Requested("Input") \/ Requested("Flush") \/ Requested("Drain")) =>
       (mDecoder # 0 /\ mInit)]_vars

\* C22: Input, Flush and Drain of the active proxy make exactly one request
\* of their kind to the decoder and return what the decoder answered: NS_OK
\* with the request carried out (sample or drain accepted, pipeline emptied),
\* a failure with the decoder's pipeline as it was.  Neither outcome changes
\* mActiveProxy, mActiveCallback or mInit.
C22_ForwardedOnce ==
  [][\A p \in Proxies :
       /\ Returns("Input", p) =>
            /\ mActiveProxy = p /\ asked' = <<"Input">>
            /\ lastRet'.status \in Statuses
            /\ queue' = IF lastRet'.status = NS_OK
                        THEN Append(queue, InputTask(p)) ELSE queue
            /\ UNCHANGED <<mActiveProxy, mActiveCallback, mInit>>
       /\ (Returns("Flush", p) /\ mActiveProxy = p) =>
            /\ asked' = <<"Flush">>
            /\ lastRet'.status \in Statuses
            /\ queue' = IF lastRet'.status = NS_OK THEN <<>> ELSE queue
            /\ UNCHANGED <<mActiveProxy, mActiveCallback, mInit>>
       /\ (Returns("Drain", p) /\ mActiveProxy = p) =>
            /\ asked' = <<"Drain">>
            /\ lastRet'.status \in Statuses
            /\ IF lastRet'.status = NS_OK
               THEN \/ queue' = Append(queue, ConsumerDrainTask(p))
                    \/ /\ queue = <<>> /\ queue' = queue
                       /\ lastEvent'.kind = "DrainComplete"
               ELSE queue' = queue /\ lastEvent' = NoEvent
            /\ UNCHANGED <<mActiveProxy, mActiveCallback, mInit>>]_vars

\* The active proxy's Flush has failed: the pipeline is as it was and the
\* proxy is still active.
C22_Witness ==
  /\ lastRet.call = "Flush" /\ lastRet.status = NS_ERROR_FAILURE
  /\ asked = <<"Flush">> /\ mActiveProxy = lastRet.proxy /\ queue # <<>>

\* C23: every input, flush or drain request to the decoder is made through
\* the proxy that mActiveProxy records at that moment: the consumer's own
\* Flush or Drain, Input after its selection, or the mActiveProxy->Drain()
\* and mActiveProxy->Flush() of a hand-off.
C23_OnBehalfOfActive ==
  [][(Requested("Input") \/ Requested("Flush") \/ Requested("Drain")) =>
       /\ mActiveProxy # 0
       /\ CASE pc = "idle" -> lastRet'.proxy = mActiveProxy
            [] pc = "body" -> cur = mActiveProxy
            [] OTHER -> idleOf = mActiveProxy]_vars

\* Inside a call of proxy 2, the hand-off has asked for the drain through
\* proxy 1, which is still the active one.
C23_Witness ==
  /\ asked = <<"Drain">> /\ pc = "wait" /\ cur = 2
  /\ idleOf = 1 /\ mActiveProxy = 1

\* C24 as stated: whenever no SetIdle call is in progress (none is between
\* setting the flag and clearing mActiveProxy), mWaitForInternalDrain is
\* false.
C24_FlagOnlyInHandoff ==
  mWaitForInternalDrain => pc \in {"drain", "wait", "flush"}

\* C25 as stated (its safety part): when the decoder reports the completion
\* of a drain that a consumer's Drain() call had it accept, be it from the
\* decoder's thread or before Drain() returns, that consumer's callback
\* receives DrainComplete.
C25_AcceptedDrainAnswered ==
  [][\A p \in Proxies :
       /\ (/\ queue # <<>> /\ Head(queue) = ConsumerDrainTask(p)
           /\ queue' = Tail(queue)
           /\ lastEvent'.kind = "DrainComplete") =>
            lastEvent'.sink = mCallback(p)
       /\ (/\ Returns("Drain", p) /\ mActiveProxy = p
           /\ lastEvent'.kind = "DrainComplete") =>
            lastEvent'.sink = mCallback(p)]_vars

\* C26: SetIdle has set mWaitForInternalDrain when it comes to its drain
\* request and is not inside the monitor while it makes the request; when
\* the decoder calls DrainComplete before the drain request returns, the
\* flag is clear when SetIdle comes to its wait, and with the flag clear the
\* wait is over at once.
C26_Handshake ==
  [][/\ (pc # "drain" /\ pc' = "drain") => mWaitForInternalDrain'
     /\ pc = "drain" => mMonitor = "none"
     /\ (pc = "drain" /\ pc' = "wait" /\ queue' = queue) =>
          ~mWaitForInternalDrain'
     /\ (pc = "wait" /\ ~mWaitForInternalDrain) => ENABLED SetIdleWait]_vars

\* The acknowledgment of the hand-off's drain was there before the wait began.
C26_Witness ==
  /\ pc = "wait" /\ ~mWaitForInternalDrain /\ queue = <<>>
  /\ trace = <<"flag", "drain", "ack">>

\* C27: a SetIdle that has set the flag for the active proxy comes to its
\* end, with mActiveProxy null, provided the decoder's thread carries out
\* what the decoder accepted.  It leaves its wait only with the flag clear,
\* skips the wait only when the decoder took no drain request, and its last
\* step clears mActiveProxy.
C27_SetIdleReturns ==
  /\ [][/\ (pc = "wait" /\ pc' # "wait") =>
             (~mWaitForInternalDrain /\ pc' = "flush")
        /\ (pc = "drain" /\ pc' = "flush") => queue' = queue
        /\ (pc = "flush" /\ pc' # "flush") =>
             (mActiveProxy' = 0 /\ pc' \in {"assign", "idle"})]_vars
  /\ (pc = "drain") ~> (pc \in {"assign", "idle"} /\ mActiveProxy = 0)

\* SetIdle has released proxy 1 after a wait, inside a call of proxy 2.
C27_Witness ==
  /\ pc = "assign" /\ idleOf = 1 /\ cur = 2 /\ mActiveProxy = 0
  /\ ~mWaitForInternalDrain

\* C28: SetIdle(P) with P null or not the active proxy returns at once: it
\* asks the decoder nothing, and mWaitForInternalDrain, mActiveProxy,
\* mActiveCallback and the decoder's pipeline are as they were.
C28_SetIdleOfInactive ==
  [][(pc = "setidle" /\ pc' # "setidle"
      /\ (idleOf = 0 \/ mActiveProxy # idleOf)) =>
       /\ pc' \in {"assign", "idle"}
       /\ asked' = <<>>
       /\ UNCHANGED <<mWaitForInternalDrain, mActiveProxy, mActiveCallback,
                      queue>>]_vars

\* Shutdown of proxy 1, which is not the active one, has returned while
\* proxy 2 is active and the decoder has work queued.
C28_Witness ==
  /\ pc = "idle" /\ mActiveProxy = 2 /\ mActiveCallback = mCallback(2)
  /\ queue # <<>> /\ handoffFlushFailed = FALSE /\ ~mWaitForInternalDrain
  /\ asked = <<>> /\ lastRet.call = "Shutdown" /\ lastRet.proxy = 1

\* C29: Init or Input of the proxy that is already active goes straight to
\* its request: up to its return the decoder is asked for no drain and no
\* flush, and mActiveProxy and mActiveCallback stay as they are.  A hand-off
\* begins only in a Shutdown of the active proxy or in an Init or Input of a
\* proxy other than the active one.
C29_SelectOfActive ==
  [][/\ (pc = "idle" /\ pc' # "idle" /\ op' \in {"Init", "Input"}
         /\ mActiveProxy = cur') =>
          (pc' = "body" /\ asked' = <<>>
           /\ UNCHANGED <<mActiveProxy, mActiveCallback, queue>>)
     /\ (pc = "body" /\ pc' # "body") =>
          (/\ pc' = "idle" /\ mActiveProxy = cur
           /\ ~Requested("Drain") /\ ~Requested("Flush")
           /\ UNCHANGED <<mActiveProxy, mActiveCallback>>)
     /\ (pc = "setidle" /\ pc' = "drain") =>
          (/\ mActiveProxy # 0
           /\ IF op = "Shutdown" THEN cur = mActiveProxy
              ELSE op \in {"Init", "Input"} /\ cur # mActiveProxy)]_vars

\* Input of proxy 1 has returned with a second sample queued: only the input
\* was asked of the decoder, and proxy 1 is the active one.
C29_Witness ==
  /\ lastRet.call = "Input" /\ lastRet.proxy = 1 /\ asked = <<"Input">>
  /\ mActiveProxy = 1 /\ mActiveCallback = mCallback(1)
  /\ Len(queue) = 2 /\ \A i \in 1..2 : queue[i].t = "in"

\* C30: when the decoder is asked for an init or an input, the calling proxy
\* is already the active one and mActiveCallback is its callback, and they
\* still are when Init or Input returns, whatever it returns.  Flush, Drain
\* and IsHardwareAccelerated leave mActiveProxy and mActiveCallback as they
\* are.
C30_SelectsFirst ==
  [][/\ (Requested("Init") \/ Requested("Input")) =>
          (mActiveProxy = cur /\ mActiveCallback = mCallback(cur))
     /\ \A p \in Proxies :
          /\ (Returns("InitDecoder", p) \/ Returns("Input", p)) =>
               (/\ mActiveProxy = p
                /\ mActiveProxy' = p /\ mActiveCallback' = mCallback(p))
          /\ (\/ Returns("Flush", p) \/ Returns("Drain", p)
              \/ Returns("IsHardwareAccelerated", p)) =>
               UNCHANGED <<mActiveProxy, mActiveCallback>>]_vars

\* Input of proxy 2 has failed, and proxy 2 is the active one.
C30_Witness ==
  /\ lastRet.call = "Input" /\ lastRet.proxy = 2
  /\ lastRet.status = NS_ERROR_FAILURE /\ asked = <<"Input">>
  /\ mActiveProxy = 2 /\ mActiveCallback = mCallback(2)

\* C31: mInit goes from true to false only in a Recreate that returns true,
\* which also installs a decoder; no other step resets it.
C31_ResetOnlyByRecreate ==
  [][(mInit /\ ~mInit') =>
       /\ lastRet'.call = "Recreate" /\ lastRet'.status = "true"
       /\ mDecoder' = 1]_vars

\* A Recreate has failed and left the manager without a decoder, with mInit
\* still true.
C31_Witness ==
  /\ lastRet.call = "Recreate" /\ lastRet.status = "false"
  /\ mDecoder = 0 /\ mInit

\* C32 as stated: the decoder the manager holds has at most one init request
\* in flight at any time.
C32_OneInitInFlight ==
  Cardinality({i \in 1..MaxInitCalls :
                 reqs[i].st = "inflight" /\ ~reqs[i].stale}) <= 1

\* A call of Init or Input by cur is inside Select, past its early return and
\* not yet at the assignment's end; Releasing is the proxy it hands off.
InSelect ==
  /\ op \in {"Init", "Input"}
  /\ pc \in {"select", "setidle", "drain", "wait", "flush", "assign"}
Releasing == IF pc = "select" THEN mActiveProxy ELSE idleOf

\* C33: while Select hands the decoder from A to B, up to the step that
\* records B, an Output, Error, InputExhausted or ReleaseMediaResources from
\* the decoder goes to A's sink, and nothing goes to B's sink.  The sink the
\* decoder's thread delivers to is mActiveCallback, which changes only in the
\* step of Select that records the calling proxy as active.
C33_EventsDuringHandoff ==
  [][/\ (lastEvent'.kind # "none" /\ InSelect /\ Releasing # 0) =>
          /\ lastEvent'.sink # mCallback(cur)
          /\ lastEvent'.kind \in Forwarded =>
               lastEvent'.sink = mCallback(Releasing)
     /\ (lastEvent'.kind # "none" /\ lastEvent'.via = "router") =>
          lastEvent'.sink \in {0, mActiveCallback}
     /\ mActiveCallback' # mActiveCallback =>
          /\ InSelect /\ pc = "assign"
          /\ mActiveProxy' = cur /\ mActiveCallback' = mCallback(cur)]_vars

\* An output came from the decoder while Select, called by proxy 2, waits for
\* the drain of proxy 1: it went to the sink of proxy 1.
C33_Witness ==
  /\ lastEvent.kind = "Output" /\ lastEvent.sink = mCallback(1)
  /\ pc = "wait" /\ op \in {"Init", "Input"} /\ cur = 2 /\ idleOf = 1

\* C34 as stated: when InitDecoder returns an already resolved future for the
\* decoder the manager holds, that decoder has completed an init of its own.
C34_SuccessMeansInitialised ==
  (lastRet.call = "InitDecoder" /\ lastRet.immediate /\ mDecoder # 0) =>
    reportedType # "none"

\* C35 as stated: the completion of an init request made to a decoder that
\* Recreate has replaced leaves mInit false.
C35_LateInitIgnored ==
  [][(/\ ~mInit
      /\ \E id \in 1..MaxInitCalls :
           /\ reqs[id].stale /\ reqs[id].st = "inflight"
           /\ reqs'[id].st # "inflight") => ~mInit']_vars

\* C36 as stated: while the manager has no decoder, no hand-off is under way
\* and no call has gone through the null mDecoder.
C36_NoRequestAfterShutdown ==
  mDecoder = 0 => (pc \notin {"drain", "wait", "flush"} /\ ~crashed)

====
